---- MODULE Spec2Model ----
(***************************************************************************)
(* ReAct tool agent: the transcript parser (parse_react_output), the tool  *)
(* dispatcher (execute_tools), the run loop (ToolAgent.run) and the        *)
(* /agent request handler (run_agent) with its tool-subset filter.         *)
(*                                                                         *)
(* Text is modelled as a sequence of tokens.  A token is one of the five   *)
(* grammar labels, a whitespace character, the JSON quote, or a word: a    *)
(* piece of text that contains no label and neither starts nor ends with   *)
(* whitespace.  The regular expressions of agent.py only look for labels,  *)
(* whitespace and the end of the text, so they act on tokens exactly as    *)
(* they act on characters.                                                 *)
(***************************************************************************)
EXTENDS Integers, Sequences, FiniteSets, TLC

VARIABLES
    pc,                      \* position of the server / of the run
    tools,                   \* default agent's tools: name -> callable, insertion order
    tool_definitions,        \* default agent's tool_definitions
    agent,                   \* run_agent's agent: "default", or the "fresh" copy
    fresh_tools,             \* tools of the agent built for query.model_name
    fresh_tool_definitions,  \* its tool_definitions
    reqTools,                \* AgentQuery.tools of the request being served
    original_tool_definitions, \* local of run_agent
    errDetail,               \* detail of the exception that left run / run_agent
    max_iterations,          \* argument of ToolAgent.run
    prompt,                  \* local of ToolAgent.run
    next_prompt,             \* local of ToolAgent.run
    response,                \* local of ToolAgent.run: the accumulated transcript
    parsed,                  \* local of ToolAgent.run: last parse of response
    continuation,            \* local of ToolAgent.run
    iterations,              \* local of ToolAgent.run
    result,                  \* what ToolAgent.run returned
    outputs,                 \* history: what model.generate returned, call by call
    execLog,                 \* history: the tool executions attempted, in order
    registrations,           \* history: the register_tool calls on the default agent
    text,                    \* argument of a direct parse_react_output call
    parse_result             \* its return value

vars == <<pc, tools, tool_definitions, agent, fresh_tools, fresh_tool_definitions,
          reqTools, original_tool_definitions, errDetail, max_iterations,
          prompt, next_prompt, response, parsed, continuation, iterations,
          result, outputs, execLog, registrations, text, parse_result>>

----------------------------------------------------------------------------
(* Bounds *)

MaxIterParam == 2      \* largest max_iterations passed by a direct caller
MaxGenCalls == 3       \* generator calls explored per run
MaxSections == 4       \* labelled sections in a text parsed directly
MaxReqTools == 2       \* names in a request's tool subset
MaxRegisterCalls == 3  \* register_tool calls made on one agent
MaxTurnActions == 2    \* actions of a Turn that is rendered and parsed again

----------------------------------------------------------------------------
(* Tokens *)

NL == "\n"
SP == " "
QUOTE == "\""
ESC_NL == "\\n"
ESC_QUOTE == "\\\""

THINKING_LABEL == "THINKING:"
ACTION_LABEL == "ACTION:"
ACTION_INPUT_LABEL == "ACTION_INPUT:"
OBSERVATION_LABEL == "OBSERVATION:"
FINAL_ANSWER_LABEL == "FINAL_ANSWER:"

Labels == {THINKING_LABEL, ACTION_LABEL, ACTION_INPUT_LABEL, OBSERVATION_LABEL, FINAL_ANSWER_LABEL}

\* the lookahead alternatives of the five patterns ("$" is the end of text)
THINKING_PATTERN == {ACTION_LABEL, FINAL_ANSWER_LABEL}
ACTION_PATTERN == {ACTION_INPUT_LABEL}
ACTION_INPUT_PATTERN == {OBSERVATION_LABEL}
OBSERVATION_PATTERN == {THINKING_LABEL, ACTION_LABEL, FINAL_ANSWER_LABEL}
\* (mutant: the final answer ends at the next label)
FINAL_ANSWER_PATTERN_Labelled ==
    {THINKING_LABEL, ACTION_LABEL, ACTION_INPUT_LABEL, OBSERVATION_LABEL, FINAL_ANSWER_LABEL}
FINAL_ANSWER_PATTERN == {}

IsSpace(t) == t \in {NL, SP}

\* Python's None and a present value
None == [some |-> FALSE, val |-> <<>>]
Some(s) == [some |-> TRUE, val |-> s]

\* truthiness of an optional string: None and "" are falsy
Truthy(o) == o.some /\ o.val # <<>>

----------------------------------------------------------------------------
(* Strings *)

RECURSIVE LStrip(_)
LStrip(s) == IF s # <<>> /\ IsSpace(Head(s)) THEN LStrip(Tail(s)) ELSE s

RECURSIVE RStrip(_)
RStrip(s) ==
    IF s # <<>> /\ IsSpace(s[Len(s)]) THEN RStrip(SubSeq(s, 1, Len(s) - 1)) ELSE s

\* str.strip()
Strip(s) == RStrip(LStrip(s))

\* sep.join(ss)
RECURSIVE Join(_, _)
Join(sep, ss) ==
    IF ss = <<>> THEN <<>>
    ELSE IF Len(ss) = 1 THEN ss[1]
    ELSE ss[1] \o sep \o Join(sep, Tail(ss))

Contains(s, t) == \E i \in 1..Len(s) : s[i] = t

\* s occurs in t as a contiguous run of tokens
Infix(s, t) ==
    \E i \in 0..(Len(t) - Len(s)) : SubSeq(t, i + 1, i + Len(s)) = s

----------------------------------------------------------------------------
(* json *)

JNull == [kind |-> "null", val |-> <<>>]
JNum(w) == [kind |-> "num", val |-> <<w>>]
JObj(w) == [kind |-> "obj", val |-> <<w>>]
JStr(s) == [kind |-> "str", val |-> s]

\* JSON documents that are one word: the number 1, and the object {"a": 1}
\* in its canonical and in its compact spelling
NumWord == "1"
\* a number of more digits than int() converts (4300 by default, CPython 3.11)
HugeNumWord == "1111...1 (5000 digits)"
ObjWord == "{\"a\": 1}"
ObjWordCompact == "{\"a\":1}"

RECURSIVE Escape(_)
Escape(s) ==
    IF s = <<>> THEN <<>>
    ELSE (CASE Head(s) = NL -> <<ESC_NL>>
            [] Head(s) = QUOTE -> <<ESC_QUOTE>>
            [] OTHER -> <<Head(s)>>) \o Escape(Tail(s))

RECURSIVE Unescape(_)
Unescape(s) ==
    IF s = <<>> THEN <<>>
    ELSE (CASE Head(s) = ESC_NL -> <<NL>>
            [] Head(s) = ESC_QUOTE -> <<QUOTE>>
            [] OTHER -> <<Head(s)>>) \o Unescape(Tail(s))

\* a JSON string literal: quotes around a body with no bare quote or newline
IsJsonString(s) ==
    /\ Len(s) >= 2
    /\ s[1] = QUOTE
    /\ s[Len(s)] = QUOTE
    /\ \A i \in 2..(Len(s) - 1) : s[i] \notin {QUOTE, NL}

\* json.loads succeeds (no JSONDecodeError); surrounding whitespace is allowed
JsonDecodes(s) ==
    LET t == Strip(s) IN
    \/ t \in {<<"null">>, <<NumWord>>, <<ObjWord>>, <<ObjWordCompact>>}
    \/ IsJsonString(t)

\* json.loads raises something that is not a JSONDecodeError: the scanner's
\* int() refuses the digits with a plain ValueError.  The number is scanned
\* first, so what follows it in the text does not matter.
JsonLoadsFails(s) == Strip(s) # <<>> /\ Head(Strip(s)) = HugeNumWord

ValueErrorDetail == <<"Exceeds the limit (4300 digits) for integer string conversion">>

\* json.loads(s) where it succeeds
JsonLoads(s) ==
    LET t == Strip(s) IN
    CASE t = <<"null">> -> JNull
      [] t = <<NumWord>> -> JNum(NumWord)
      [] t \in {<<ObjWord>>, <<ObjWordCompact>>} -> JObj(ObjWord)
      [] OTHER -> JStr(Unescape(SubSeq(t, 2, Len(t) - 1)))

\* json.dumps(v, ensure_ascii=False)
JsonDumps(v) ==
    CASE v.kind = "null" -> <<"null">>
      [] v.kind = "str" -> <<QUOTE>> \o Escape(v.val) \o <<QUOTE>>
      [] OTHER -> v.val

----------------------------------------------------------------------------
(* parse_react_output *)

\* where the labels are in s
LabelPositions(s) == {j \in 1..Len(s) : s[j] \in Labels}

\* first index >= i holding a label of S, or Len(s) + 1; at = LabelPositions(s)
Find(s, at, i, S) ==
    LET hits == {j \in at : j >= i /\ s[j] \in S} IN
    IF hits = {} THEN Len(s) + 1
    ELSE CHOOSE j \in hits : \A k \in hits : j <= k

\* re.finditer(label \s* (.*?) (?= terminators | $), s, DOTALL) from index i:
\* the group(1) of every match, in order.  A match starts at the next label,
\* runs to the first terminator after it (or to the end), and the scan goes
\* on from that terminator, which the lookahead did not consume.
RECURSIVE FindIter(_, _, _, _, _)
FindIter(s, at, i, label, terms) ==
    LET p == Find(s, at, i, {label}) IN
    IF p > Len(s) THEN <<>>
    ELSE LET q == Find(s, at, p + 1, terms) IN
         <<LStrip(SubSeq(s, p + 1, q - 1))>> \o FindIter(s, at, q, label, terms)

\* re.search(...): the first match, if any
Search(s, at, label, terms) ==
    LET p == Find(s, at, 1, {label}) IN
    IF p > Len(s) THEN None
    ELSE Some(LStrip(SubSeq(s, p + 1, Find(s, at, p + 1, terms) - 1)))

RECURSIVE StripNonEmpty(_)
StripNonEmpty(ms) ==
    IF ms = <<>> THEN <<>>
    ELSE (IF Strip(Head(ms)) # <<>> THEN <<Strip(Head(ms))>> ELSE <<>>)
         \o StripNonEmpty(Tail(ms))

\* (mutant: the bound of the index test is off by one)
ActionInput_OffByOne(action_input_matches, i) ==
    IF i < Len(action_input_matches)
    THEN LET action_input_text == Strip(action_input_matches[i]) IN
         IF JsonDecodes(action_input_text)
         THEN JsonLoads(action_input_text)
         ELSE JStr(action_input_text)
    ELSE JNull

\* lines 93-102: the i-th action's input
ActionInput(action_input_matches, i) ==
    IF i <= Len(action_input_matches)
    THEN LET action_input_text == Strip(action_input_matches[i]) IN
         IF JsonDecodes(action_input_text)
         THEN JsonLoads(action_input_text)
         ELSE JStr(action_input_text)
    ELSE JNull

\* lines 104-107: the i-th action's observation
ActionObservation(observation_matches, i) ==
    IF i <= Len(observation_matches)
    THEN Some(Strip(observation_matches[i]))
    ELSE None

parse_react_output(s) ==
    LET at == LabelPositions(s)
        thinking_matches == FindIter(s, at, 1, THINKING_LABEL, THINKING_PATTERN)
        action_matches == FindIter(s, at, 1, ACTION_LABEL, ACTION_PATTERN)
        action_input_matches ==
            FindIter(s, at, 1, ACTION_INPUT_LABEL, ACTION_INPUT_PATTERN)
        observation_matches ==
            FindIter(s, at, 1, OBSERVATION_LABEL, OBSERVATION_PATTERN)
        final_answer_match == Search(s, at, FINAL_ANSWER_LABEL, FINAL_ANSWER_PATTERN)
    IN [thinking |-> StripNonEmpty(thinking_matches),
        actions |-> [i \in 1..Len(action_matches) |->
                        [tool |-> Strip(action_matches[i]),
                         input |-> ActionInput(action_input_matches, i),
                         observation |-> ActionObservation(observation_matches, i)]],
        final_answer |-> IF final_answer_match.some
                         THEN Some(Strip(final_answer_match.val))
                         ELSE None,
        raw_output |-> s]

\* parse_react_output does not return: json.loads (line 99) raises an
\* exception that `except json.JSONDecodeError` (line 100) does not catch
ParseRaises(s) ==
    /\ Contains(s, HugeNumWord)
    /\ LET at == LabelPositions(s)
           action_matches == FindIter(s, at, 1, ACTION_LABEL, ACTION_PATTERN)
           action_input_matches ==
               FindIter(s, at, 1, ACTION_INPUT_LABEL, ACTION_INPUT_PATTERN)
       IN \E i \in 1..Len(action_matches) :
              /\ i <= Len(action_input_matches)
              /\ JsonLoadsFails(action_input_matches[i])

EmptyParsed == [thinking |-> <<>>, actions |-> <<>>, final_answer |-> None,
                raw_output |-> <<>>]

----------------------------------------------------------------------------
(* The registry *)

\* the tools startup_event registers, in order: name and bound callable
StartupTools ==
    << [name |-> "read_file", func |-> "FileReader.execute"],
       [name |-> "write_file", func |-> "FileWriter.execute"],
       [name |-> "list_directory", func |-> "ListDirectory.execute"],
       [name |-> "run_command", func |-> "CommandRunner.execute"],
       [name |-> "system_info", func |-> "SystemInfo.execute"],
       [name |-> "web_search", func |-> "WebSearch.execute"],
       [name |-> "read_webpage", func |-> "WebPageReader.execute"] >>

\* dict keys in insertion order: the first occurrence of every name
RECURSIVE Keys(_)
Keys(entries) ==
    IF entries = <<>> THEN <<>>
    ELSE LET rest == Keys(SubSeq(entries, 1, Len(entries) - 1))
             k == entries[Len(entries)].name
         IN IF \E i \in 1..Len(rest) : rest[i] = k THEN rest ELSE Append(rest, k)

HasKey(entries, k) == \E i \in 1..Len(entries) : entries[i].name = k

\* self.tools[name] = func
DictSet(d, name, func) ==
    IF HasKey(d, name)
    THEN [i \in 1..Len(d) |-> IF d[i].name = name THEN [name |-> name, func |-> func]
                                                 ELSE d[i]]
    ELSE Append(d, [name |-> name, func |-> func])

\* register_tool: the state of an agent is [tools, tool_definitions]
register_tool(a, name, func, description) ==
    [tools |-> DictSet(a.tools, name, func),
     tool_definitions |-> Append(a.tool_definitions,
                                 [name |-> name, description |-> description])]

NewAgent == [tools |-> <<>>, tool_definitions |-> <<>>]

\* startup_event: register every tool on a new agent
RECURSIVE RegisterAll(_, _)
RegisterAll(a, ts) ==
    IF ts = <<>> THEN a
    ELSE RegisterAll(register_tool(a, Head(ts).name, Head(ts).func, Head(ts).name),
                     Tail(ts))

\* run_agent lines 265-276: copy the default agent's tools onto a new agent
RECURSIVE CopyTools(_, _, _)
CopyTools(a, defs, dflt_tools) ==
    IF defs = <<>> THEN a
    ELSE LET d == Head(defs)
             f == (CHOOSE e \in {dflt_tools[i] : i \in 1..Len(dflt_tools)} :
                       e.name = d.name).func
         IN CopyTools(register_tool(a, d.name, f, d.description), Tail(defs), dflt_tools)

\* ', '.join(names)
CommaJoin(names) == Join(<<",", SP>>, [i \in 1..Len(names) |-> <<names[i]>>])

----------------------------------------------------------------------------
(* execute_tools *)

\* What calling a tool can do: return a string or raise.  Tools return text
\* they do not control (file contents, command output, web pages).
ToolReturns ==
    { <<"ok">>,
      <<"see", SP, FINAL_ANSWER_LABEL, SP, "z">> }
ToolRaises == { <<"boom">> }
ToolOutcomes ==
    {[kind |-> "returned", val |-> o] : o \in ToolReturns}
    \cup {[kind |-> "raised", val |-> m] : m \in ToolRaises}

\* `tool_name in self.tools`: tool_name is a string, the keys are words
Registered(tl, tool_name) == \E i \in 1..Len(tl) : <<tl[i].name>> = tool_name

\* (mutant: the registered names are not listed)
NotFoundObservation_NoListing(tl, tool_name) ==
    <<"Error: Tool '">> \o tool_name \o <<"' not found.">>

NotFoundObservation(tl, tool_name) ==
    <<"Error: Tool '">> \o tool_name \o <<"' not found. Available tools:", SP>>
    \o CommaJoin(Keys(tl))

\* (mutant: the tool is not named)
RaisedObservation_NoName(tool_name, msg) ==
    <<"Error executing tool:", SP>> \o msg

RaisedObservation(tool_name, msg) ==
    <<"Error executing tool '">> \o tool_name \o <<"':", SP>> \o msg

\* (mutant: the observation is not written to the continuation)
Rendering_NoObservation(tool_name, tool_input, observation) ==
    <<ACTION_LABEL, SP>> \o tool_name \o <<NL>>
    \o <<ACTION_INPUT_LABEL, SP>> \o JsonDumps(tool_input) \o <<NL>>

\* lines 155-158
Rendering(tool_name, tool_input, observation) ==
    <<ACTION_LABEL, SP>> \o tool_name \o <<NL>>
    \o <<ACTION_INPUT_LABEL, SP>> \o JsonDumps(tool_input) \o <<NL>>
    \o <<OBSERVATION_LABEL, SP>> \o observation \o <<NL>>

\* The loop of lines 134-161 from action i on.  st is
\* [parsed, continuation, calls]; calls lists what was attempted.
RECURSIVE ExecFrom(_, _, _, _, _)
ExecFrom(i, st, tl, outcome, brk) ==
    IF i > Len(st.parsed.actions) THEN st
    ELSE
      LET action == st.parsed.actions[i]
          tool_name == action.tool
          tool_input == action.input
      IN IF action.observation.some
         THEN ExecFrom(i + 1, st, tl, outcome, brk)
         ELSE
           LET found == Registered(tl, tool_name)
               observation ==
                   IF ~found THEN NotFoundObservation(tl, tool_name)
                   ELSE IF outcome.kind = "returned" THEN outcome.val
                   ELSE RaisedObservation(tool_name, outcome.val)
               kind == IF found THEN outcome.kind ELSE "not_found"
               st2 == [parsed |->
                          IF found
                          THEN [st.parsed EXCEPT
                                  !.actions[i].observation = Some(observation)]
                          ELSE st.parsed,
                       continuation |->
                          st.continuation \o Rendering(tool_name, tool_input, observation),
                       calls |-> Append(st.calls,
                                    [index |-> i, tool |-> tool_name,
                                     input |-> tool_input, kind |-> kind,
                                     detail |-> IF kind = "raised" THEN outcome.val
                                                ELSE <<>>,
                                     observation |-> observation])]
           IN IF brk THEN st2 ELSE ExecFrom(i + 1, st2, tl, outcome, brk)

\* (mutant: the `break` of line 161 is missing)
execute_tools_NoBreak(p, tl, outcome) ==
    ExecFrom(1, [parsed |-> p, continuation |-> <<>>, calls |-> <<>>], tl, outcome, FALSE)

execute_tools(p, tl, outcome) ==
    ExecFrom(1, [parsed |-> p, continuation |-> <<>>, calls |-> <<>>], tl, outcome, TRUE)

----------------------------------------------------------------------------
(* prompts.py *)

Query == <<"q">>

\* one tool's block of the system prompt; the fixed wording is one word
ToolDescription(d) == <<"Tool:", d.name, "Description:", d.description>>

\* the fixed wording before and after the tool blocks is one word each
get_system_prompt(defs) ==
    <<"You are an AI assistant ... Available tools:">>
    \o Join(<<NL>>, [i \in 1..Len(defs) |-> ToolDescription(defs[i])])
    \o <<"To use a tool, respond with: ...">>

format_user_query(query) == <<"User:">> \o query \o <<NL, "Assistant:">>

\* examples and conversation_history are None
create_full_prompt(query, defs) ==
    get_system_prompt(defs) \o <<NL>> \o format_user_query(query)

----------------------------------------------------------------------------
(* The generator: LLMModel.generate returns stripped text *)

Group(name, input) ==
    <<ACTION_LABEL, SP, name, NL, ACTION_INPUT_LABEL, SP>> \o input

GenAction == Group("read_file", <<ObjWordCompact>>)
GenActionRaw == Group("web_search", <<"x">>)
GenActionUnknown == Group("nope", <<NumWord>>)
GenTwoActions == Group("read_file", <<NumWord>>) \o <<NL>> \o Group("web_search", <<NumWord>>)
GenThinking == <<THINKING_LABEL, SP, "hm">>
GenFinal == <<THINKING_LABEL, SP, "hm", NL, FINAL_ANSWER_LABEL, SP, "done">>
GenActionEmptyFinal == Group("read_file", <<NumWord>>) \o <<NL, FINAL_ANSWER_LABEL>>
GenActionHuge == Group("read_file", <<HugeNumWord>>)

GenOutputs ==
    {GenAction, GenActionRaw, GenActionUnknown, GenTwoActions, GenThinking,
     GenFinal, GenActionEmptyFinal, GenActionHuge}

\* what model.generate raises when the backend fails
GeneratorRaises == { <<"backend down">> }

----------------------------------------------------------------------------
(* ToolAgent.run and run_agent *)

DEFAULT_MAX_ITERATIONS == 10

\* names a request may put in AgentQuery.tools
ReqNames == {"read_file", "nope", "bogus"}

\* the lists of at most n different names of S
RECURSIVE SeqsUpTo(_, _)
SeqsUpTo(S, n) ==
    IF n = 0 THEN {<<>>}
    ELSE LET shorter == SeqsUpTo(S, n - 1)
         IN shorter \cup UNION { {Append(q, x) : x \in S \ {q[i] : i \in 1..Len(q)}}
                                  : q \in shorter }

\* the AgentQuery.tools values explored; the empty list stands for None
ReqLists == SeqsUpTo(ReqNames, MaxReqTools)

\* the agent the request runs on
AgentTools == IF agent = "default" THEN tools ELSE fresh_tools
AgentDefs == IF agent = "default" THEN tool_definitions ELSE fresh_tool_definitions

\* lines 282-292: the filter loop from request name i on.  Returns the
\* filtered definitions, or the detail of the HTTPException it raised.
RECURSIVE FilterFrom(_, _, _, _)
FilterFrom(i, names, defs, filtered_tools) ==
    IF i > Len(names) THEN [ok |-> TRUE, filtered_tools |-> filtered_tools, detail |-> <<>>]
    ELSE LET tool_name == names[i] IN
         IF HasKey(defs, tool_name)
         THEN \* all_tools[tool_name]: the last definition under that name
              LET k == CHOOSE j \in 1..Len(defs) :
                           /\ defs[j].name = tool_name
                           /\ \A l \in (j + 1)..Len(defs) : defs[l].name # tool_name
              IN FilterFrom(i + 1, names, defs, Append(filtered_tools, defs[k]))
         ELSE [ok |-> FALSE, filtered_tools |-> <<>>,
               detail |-> <<"Tool '", tool_name, "' not found. Available tools:", SP>>
                          \o CommaJoin(Keys(defs))]

\* (mutant: unknown names are dropped from the subset, not rejected)
FilterTools_SkipUnknown(names, defs) ==
    FilterFrom(1, SelectSeq(names, LAMBDA n : HasKey(defs, n)), defs, <<>>)

\* (mutant: the error reports the last unknown name, not the first)
FilterTools_LastUnknown(names, defs) ==
    LET r == FilterFrom(1, names, defs, <<>>)
        absent == SelectSeq(names, LAMBDA n : ~HasKey(defs, n))
    IN IF r.ok THEN r
       ELSE [r EXCEPT !.detail = <<"Tool '", absent[Len(absent)],
                                   "' not found. Available tools:", SP>>
                                 \o CommaJoin(Keys(defs))]

FilterTools(names, defs) == FilterFrom(1, names, defs, <<>>)

\* (mutant: the iteration budget is not tested)
LoopCondition_NoBudget ==
    /\ ~Truthy(parsed.final_answer)
    /\ \E i \in 1..Len(parsed.actions) : ~parsed.actions[i].observation.some

\* the while condition of lines 197-199
LoopCondition ==
    /\ ~Truthy(parsed.final_answer)
    /\ iterations < max_iterations
    /\ \E i \in 1..Len(parsed.actions) : ~parsed.actions[i].observation.some

NoResult == [final_answer |-> None, thinking |-> <<>>, actions |-> <<>>,
             raw_output |-> <<>>, returned |-> FALSE]

InitLocals ==
    /\ tools = <<>>
    /\ tool_definitions = <<>>
    /\ agent = "default"
    /\ fresh_tools = <<>>
    /\ fresh_tool_definitions = <<>>
    /\ reqTools = <<>>
    /\ original_tool_definitions = None
    /\ errDetail = <<>>
    /\ max_iterations = 0
    /\ prompt = <<>>
    /\ next_prompt = <<>>
    /\ response = <<>>
    /\ parsed = EmptyParsed
    /\ continuation = <<>>
    /\ iterations = 0
    /\ result = NoResult
    /\ outputs = <<>>
    /\ execLog = <<>>
    /\ registrations = <<>>
    /\ parse_result = EmptyParsed

\* a new ToolAgent (lines 33-35), before startup_event has run
Init ==
    /\ pc = "startup"
    /\ text = <<>>
    /\ InitLocals

\* startup_event
Startup ==
    /\ pc = "startup"
    /\ LET a == RegisterAll(NewAgent, StartupTools) IN
       /\ tools' = a.tools
       /\ tool_definitions' = a.tool_definitions
    /\ registrations' = [i \in 1..Len(StartupTools) |->
                             [name |-> StartupTools[i].name,
                              func |-> StartupTools[i].func,
                              description |-> StartupTools[i].name]]
    /\ pc' = "idle"
    /\ UNCHANGED <<agent, fresh_tools, fresh_tool_definitions, reqTools,
                   original_tool_definitions, errDetail, max_iterations, prompt,
                   next_prompt, response, parsed, continuation, iterations,
                   result, outputs, execLog, text, parse_result>>

\* run_agent, lines 262-305, up to the first generator call of agent.run
\* (lines 184-189) or to the HTTPException
RunAgent(with_model_name, names) ==
    /\ pc = "idle"
    /\ reqTools' = names
    /\ LET fresh == CopyTools(NewAgent, tool_definitions, tools)
           a == IF with_model_name THEN fresh
                ELSE [tools |-> tools, tool_definitions |-> tool_definitions]
           f == FilterTools(names, a.tool_definitions)
           filtering == names # <<>>
           failed == filtering /\ ~f.ok
           defs == IF filtering THEN f.filtered_tools ELSE a.tool_definitions
       IN /\ agent' = IF with_model_name THEN "fresh" ELSE "default"
          /\ fresh_tools' = IF with_model_name THEN fresh.tools ELSE fresh_tools
          /\ IF failed
             THEN /\ pc' = "http_error"
                  /\ errDetail' = f.detail
                  /\ fresh_tool_definitions' =
                         IF with_model_name THEN fresh.tool_definitions
                         ELSE fresh_tool_definitions
                  /\ UNCHANGED <<tool_definitions, original_tool_definitions,
                                 prompt, max_iterations>>
             ELSE /\ pc' = "generate"
                  /\ errDetail' = <<>>
                  /\ original_tool_definitions' =
                         IF filtering THEN Some(a.tool_definitions) ELSE None
                  /\ tool_definitions' =
                         IF with_model_name THEN tool_definitions ELSE defs
                  /\ fresh_tool_definitions' =
                         IF with_model_name THEN defs ELSE fresh_tool_definitions
                  /\ max_iterations' = DEFAULT_MAX_ITERATIONS
                  /\ prompt' = create_full_prompt(Query, defs)
    /\ UNCHANGED <<tools, next_prompt, response, parsed, continuation, iterations,
                   result, outputs, execLog, registrations, text, parse_result>>

\* ToolAgent.run called directly on the default agent, lines 182-189
Run(n) ==
    /\ pc = "idle"
    /\ pc' = "generate"
    /\ agent' = "default"
    /\ max_iterations' = n
    /\ prompt' = create_full_prompt(Query, tool_definitions)
    /\ UNCHANGED <<tools, tool_definitions, fresh_tools, fresh_tool_definitions,
                   reqTools, original_tool_definitions, errDetail, next_prompt,
                   response, parsed, continuation, iterations, result, outputs,
                   execLog, registrations, text, parse_result>>

\* (mutant: the restore is done after run returns, not in a finally)
Finally_OnlyOnReturn ==
    IF pc' = "done" /\ reqTools # <<>> /\ original_tool_definitions.some
                    /\ original_tool_definitions.val # <<>>
    THEN IF agent = "default"
         THEN /\ tool_definitions' = original_tool_definitions.val
              /\ UNCHANGED fresh_tool_definitions
         ELSE /\ fresh_tool_definitions' = original_tool_definitions.val
              /\ UNCHANGED tool_definitions
    ELSE UNCHANGED <<tool_definitions, fresh_tool_definitions>>

\* the finally of run_agent (lines 311-314); a direct caller of run has
\* reqTools empty
Finally ==
    IF reqTools # <<>> /\ original_tool_definitions.some
                       /\ original_tool_definitions.val # <<>>
    THEN IF agent = "default"
         THEN /\ tool_definitions' = original_tool_definitions.val
              /\ UNCHANGED fresh_tool_definitions
         ELSE /\ fresh_tool_definitions' = original_tool_definitions.val
              /\ UNCHANGED tool_definitions
    ELSE UNCHANGED <<tool_definitions, fresh_tool_definitions>>

\* lines 191-196: the first generator call and its parse
Generate(out) ==
    /\ pc = "generate"
    /\ Len(outputs) < MaxGenCalls
    /\ outputs' = Append(outputs, out)
    /\ response' = out
    /\ IF ParseRaises(out)
       THEN /\ pc' = "raised"
            /\ errDetail' = ValueErrorDetail
            /\ Finally
            /\ UNCHANGED <<parsed, iterations>>
       ELSE /\ parsed' = parse_react_output(out)
            /\ iterations' = 0
            /\ pc' = "loop"
            /\ UNCHANGED <<tool_definitions, fresh_tool_definitions, errDetail>>
    /\ UNCHANGED <<tools, agent, fresh_tools, reqTools, original_tool_definitions,
                   max_iterations, prompt, next_prompt, continuation,
                   result, execLog, registrations, text, parse_result>>

\* (mutant: the next prompt is built from the last output, not from the
\* accumulated transcript)
ExecuteTools_LastOutputOnly(outcome) ==
    /\ pc = "loop"
    /\ LoopCondition
    /\ LET r == execute_tools(parsed, AgentTools, outcome) IN
       /\ (r.calls = <<>> \/ r.calls[Len(r.calls)].kind = "not_found")
              => outcome = CHOOSE o \in ToolOutcomes : TRUE
       /\ parsed' = r.parsed
       /\ continuation' = r.continuation
       /\ execLog' = execLog \o [k \in 1..Len(r.calls) |->
                                    [iter |-> iterations] @@ r.calls[k]]
       /\ IF r.continuation = <<>>
          THEN /\ pc' = "return"
               /\ UNCHANGED next_prompt
          ELSE /\ pc' = "generate_next"
               /\ next_prompt' = prompt \o outputs[Len(outputs)] \o <<NL>>
                                  \o r.continuation
    /\ UNCHANGED <<tools, tool_definitions, agent, fresh_tools,
                   fresh_tool_definitions, reqTools, original_tool_definitions,
                   errDetail, max_iterations, prompt, response, iterations,
                   result, outputs, registrations, text, parse_result>>

\* lines 197-209: the loop is entered, execute_tools runs one tool and the
\* next prompt is built; or `break` if there is no continuation
ExecuteTools(outcome) ==
    /\ pc = "loop"
    /\ LoopCondition
    /\ LET r == execute_tools(parsed, AgentTools, outcome) IN
       /\ \* a tool that is not looked up has no outcome
          (r.calls = <<>> \/ r.calls[Len(r.calls)].kind = "not_found")
              => outcome = CHOOSE o \in ToolOutcomes : TRUE
       /\ parsed' = r.parsed
       /\ continuation' = r.continuation
       /\ execLog' = execLog \o [k \in 1..Len(r.calls) |->
                                    [iter |-> iterations] @@ r.calls[k]]
       /\ IF r.continuation = <<>>
          THEN /\ pc' = "return"
               /\ UNCHANGED next_prompt
          ELSE /\ pc' = "generate_next"
               /\ next_prompt' = prompt \o response \o <<NL>> \o r.continuation
    /\ UNCHANGED <<tools, tool_definitions, agent, fresh_tools,
                   fresh_tool_definitions, reqTools, original_tool_definitions,
                   errDetail, max_iterations, prompt, response, iterations,
                   result, outputs, registrations, text, parse_result>>

\* (mutant: the new output replaces the transcript, it is not appended)
GenerateNext_Replaces(out) ==
    /\ pc = "generate_next"
    /\ Len(outputs) < MaxGenCalls
    /\ outputs' = Append(outputs, out)
    /\ response' = out
    /\ IF ParseRaises(response')
       THEN /\ pc' = "raised"
            /\ errDetail' = ValueErrorDetail
            /\ Finally
            /\ UNCHANGED <<parsed, iterations>>
       ELSE /\ parsed' = parse_react_output(response')
            /\ iterations' = iterations + 1
            /\ pc' = "loop"
            /\ UNCHANGED <<tool_definitions, fresh_tool_definitions, errDetail>>
    /\ UNCHANGED <<tools, agent, fresh_tools, reqTools, original_tool_definitions,
                   max_iterations, prompt, next_prompt, continuation,
                   result, execLog, registrations, text, parse_result>>

\* lines 210-217: the next generator call, the transcript grows and is
\* parsed again from scratch
GenerateNext(out) ==
    /\ pc = "generate_next"
    /\ Len(outputs) < MaxGenCalls
    /\ outputs' = Append(outputs, out)
    /\ response' = response \o <<NL>> \o continuation \o out
    /\ IF ParseRaises(response')
       THEN /\ pc' = "raised"
            /\ errDetail' = ValueErrorDetail
            /\ Finally
            /\ UNCHANGED <<parsed, iterations>>
       ELSE /\ parsed' = parse_react_output(response')
            /\ iterations' = iterations + 1
            /\ pc' = "loop"
            /\ UNCHANGED <<tool_definitions, fresh_tool_definitions, errDetail>>
    /\ UNCHANGED <<tools, agent, fresh_tools, reqTools, original_tool_definitions,
                   max_iterations, prompt, next_prompt, continuation,
                   result, execLog, registrations, text, parse_result>>

\* lines 219-228, and the finally of run_agent
Return ==
    /\ \/ pc = "loop" /\ ~LoopCondition
       \/ pc = "return"
    /\ result' = [final_answer |-> parsed.final_answer,
                  thinking |-> parsed.thinking,
                  actions |-> parsed.actions,
                  raw_output |-> parsed.raw_output,
                  returned |-> TRUE]
    /\ pc' = "done"
    /\ Finally
    /\ UNCHANGED <<tools, agent, fresh_tools, reqTools, original_tool_definitions,
                   errDetail, max_iterations, prompt, next_prompt, response,
                   parsed, continuation, iterations, outputs, execLog, registrations, text,
                   parse_result>>

\* line 192: model.generate raises on the first call.  run has no handler,
\* the exception leaves run, and run_agent's finally runs on the way out.
GenerateRaises(e) ==
    /\ pc = "generate"
    /\ errDetail' = e
    /\ pc' = "raised"
    /\ Finally
    /\ UNCHANGED <<tools, agent, fresh_tools, reqTools, original_tool_definitions,
                   max_iterations, prompt, next_prompt, response, parsed,
                   continuation, iterations, result, outputs, execLog, registrations, text,
                   parse_result>>

\* (mutant: the loop catches the failure and breaks)
GenerateNextRaises_Caught(e) ==
    /\ pc = "generate_next"
    /\ errDetail' = e
    /\ pc' = "return"
    /\ UNCHANGED <<tools, tool_definitions, agent, fresh_tools,
                   fresh_tool_definitions, reqTools, original_tool_definitions,
                   max_iterations, prompt, next_prompt, response, parsed,
                   continuation, iterations, result, outputs, execLog, registrations, text,
                   parse_result>>

\* line 210: model.generate raises inside the loop
GenerateNextRaises(e) ==
    /\ pc = "generate_next"
    /\ errDetail' = e
    /\ pc' = "raised"
    /\ Finally
    /\ UNCHANGED <<tools, agent, fresh_tools, reqTools, original_tool_definitions,
                   max_iterations, prompt, next_prompt, response, parsed,
                   continuation, iterations, result, outputs, execLog, registrations, text,
                   parse_result>>

Next ==
    \/ Startup
    \/ \E m \in BOOLEAN, names \in ReqLists : RunAgent(m, names)
    \/ \E n \in 0..MaxIterParam : Run(n)
    \/ \E out \in GenOutputs : Generate(out)
    \/ \E outcome \in ToolOutcomes : ExecuteTools(outcome)
    \/ \E out \in GenOutputs : GenerateNext(out)
    \/ \E e \in GeneratorRaises : GenerateRaises(e)
    \/ \E e \in GeneratorRaises : GenerateNextRaises(e)
    \/ Return

Spec == Init /\ [][Next]_vars

\* ToolAgent.run called directly, every step of it taken once the step
\* before has returned: run is straight-line code around one while loop, so
\* a step that can be taken is taken.
NextRun ==
    \/ Startup
    \/ \E n \in 0..MaxIterParam : Run(n)
    \/ \E out \in GenOutputs : Generate(out)
    \/ \E outcome \in ToolOutcomes : ExecuteTools(outcome)
    \/ \E out \in GenOutputs : GenerateNext(out)
    \/ \E e \in GeneratorRaises : GenerateRaises(e)
    \/ \E e \in GeneratorRaises : GenerateNextRaises(e)
    \/ Return

\* A run that is at a statement it can execute goes on to the next one:
\* the generator call returns or raises, execute_tools returns, the result
\* is built.  The statement at "loop" is the while test, which goes one way
\* or the other; the generator calls explored are capped by MaxGenCalls.
RunStep ==
    /\ pc \in {"generate", "loop", "generate_next", "return"}
    /\ pc \in {"generate", "generate_next"} => Len(outputs) < MaxGenCalls
    /\ pc' \in {"loop", "generate_next", "return", "done", "raised"} \ {pc}

SpecRun == Init /\ [][NextRun]_vars /\ WF_pc(RunStep)

----------------------------------------------------------------------------
(* ToolAgent.run with a generator that talks before it uses the grammar *)

\* generate returns whatever the model wrote: text may come before the
\* first label
GenChatThinking == <<"sure", NL, THINKING_LABEL, SP, "hm">>
GenChatAction == <<"sure", NL>> \o Group("web_search", <<NumWord>>)

\* ... and it may write the observation of its action itself
GenObserved == Group("read_file", <<NumWord>>) \o <<NL, OBSERVATION_LABEL, SP, "ok">>
GenObservedHuge ==
    Group("read_file", <<HugeNumWord>>) \o <<NL, OBSERVATION_LABEL, SP, "ok">>

ChatOutputs ==
    {GenAction, GenActionUnknown, GenTwoActions, GenFinal, GenChatThinking,
     GenChatAction, GenObserved, GenObservedHuge}

NextChat ==
    \/ Startup
    \/ \E n \in 0..MaxIterParam : Run(n)
    \/ \E out \in ChatOutputs : Generate(out)
    \/ \E outcome \in ToolOutcomes : ExecuteTools(outcome)
    \/ \E out \in ChatOutputs : GenerateNext(out)
    \/ \E e \in GeneratorRaises : GenerateRaises(e)
    \/ \E e \in GeneratorRaises : GenerateNextRaises(e)
    \/ Return

SpecChat == Init /\ [][NextChat]_vars

----------------------------------------------------------------------------
(* parse_react_output called on its own *)

\* every label followed by a word, an ACTION_INPUT that is JSON and one
\* that is too long a number, a second FINAL_ANSWER text, and the labels
\* that can stand bare
Sections ==
    { <<l, SP, "a">> : l \in Labels }
    \cup { <<ACTION_INPUT_LABEL, SP, NumWord>>, <<ACTION_INPUT_LABEL, SP, HugeNumWord>>,
           <<FINAL_ANSWER_LABEL, SP, "b">>,
           <<THINKING_LABEL>>, <<FINAL_ANSWER_LABEL>> }

RECURSIVE TextsUpTo(_)
TextsUpTo(n) ==
    IF n = 1 THEN Sections
    ELSE LET shorter == TextsUpTo(n - 1)
         IN shorter \cup { t \o <<NL>> \o sec : t \in shorter, sec \in Sections }

ParseTexts == TextsUpTo(MaxSections)

InitParse ==
    /\ pc = "parse"
    /\ text \in ParseTexts
    /\ InitLocals

ParseCall ==
    /\ pc = "parse"
    /\ IF ParseRaises(text)
       THEN /\ pc' = "raised"
            /\ errDetail' = ValueErrorDetail
            /\ UNCHANGED parse_result
       ELSE /\ parse_result' = parse_react_output(text)
            /\ pc' = "parsed"
            /\ UNCHANGED errDetail
    /\ UNCHANGED <<tools, tool_definitions, agent, fresh_tools,
                   fresh_tool_definitions, reqTools, original_tool_definitions,
                   max_iterations, prompt, next_prompt, response, parsed,
                   continuation, iterations, result, outputs, execLog,
                   registrations, text>>

NextParse == ParseCall

SpecParse == InitParse /\ [][NextParse]_vars

----------------------------------------------------------------------------
(* register_tool called on a new agent, any names in any order *)

RegNames == {"read_file", "web_search"}
RegFuncs == {"f", "g"}
RegDescriptions == {"reads", "searches"}

InitRegistry ==
    /\ pc = "registering"
    /\ text = <<>>
    /\ InitLocals

RegisterTool(name, func, description) ==
    /\ pc = "registering"
    /\ Len(registrations) < MaxRegisterCalls
    /\ LET a == register_tool([tools |-> tools, tool_definitions |-> tool_definitions],
                              name, func, description) IN
       /\ tools' = a.tools
       /\ tool_definitions' = a.tool_definitions
    /\ registrations' = Append(registrations, [name |-> name, func |-> func,
                                               description |-> description])
    /\ UNCHANGED <<pc, agent, fresh_tools, fresh_tool_definitions, reqTools,
                   original_tool_definitions, errDetail, max_iterations, prompt,
                   next_prompt, response, parsed, continuation, iterations,
                   result, outputs, execLog, text, parse_result>>

NextRegistry ==
    \E name \in RegNames, func \in RegFuncs, description \in RegDescriptions :
        RegisterTool(name, func, description)

SpecRegistry == InitRegistry /\ [][NextRegistry]_vars

----------------------------------------------------------------------------
(* A Turn rendered into the grammar and parsed again *)

\* The grammar as the code writes it: "THINKING: ...\n" and
\* "FINAL_ANSWER: ...\n" as format_react_example does, an action as
\* execute_tools does, without its OBSERVATION line when it has none.
RECURSIVE RenderThinking(_)
RenderThinking(ths) ==
    IF ths = <<>> THEN <<>>
    ELSE <<THINKING_LABEL, SP>> \o Head(ths) \o <<NL>> \o RenderThinking(Tail(ths))

RenderAction(a) ==
    IF a.observation.some
    THEN Rendering(a.tool, a.input, a.observation.val)
    ELSE <<ACTION_LABEL, SP>> \o a.tool \o <<NL>>
         \o <<ACTION_INPUT_LABEL, SP>> \o JsonDumps(a.input) \o <<NL>>

RECURSIVE RenderActions(_)
RenderActions(acts) ==
    IF acts = <<>> THEN <<>>
    ELSE RenderAction(Head(acts)) \o RenderActions(Tail(acts))

RenderTurn(turn) ==
    RenderThinking(turn.thinking)
    \o RenderActions(turn.actions)
    \o (IF turn.final_answer.some
        THEN <<FINAL_ANSWER_LABEL, SP>> \o turn.final_answer.val \o <<NL>>
        ELSE <<>>)

\* well-formed Turns: trimmed strings without labels, inputs null, a number
\* or a raw string, observations null or a string
TurnThinking == { <<>>, << <<"a">> >>, << <<"a">>, <<"b">> >> }
TurnActionSet ==
    { [tool |-> <<"read_file">>, input |-> i, observation |-> o] :
          i \in {JNull, JNum(NumWord), JStr(<<"x">>)},
          o \in {None, Some(<<"ok">>)} }

RECURSIVE TurnActionsUpTo(_)
TurnActionsUpTo(n) ==
    IF n = 0 THEN {<<>>}
    ELSE LET shorter == TurnActionsUpTo(n - 1)
         IN shorter \cup { Append(q, a) : q \in shorter, a \in TurnActionSet }

Turns ==
    { [thinking |-> th, actions |-> acts, final_answer |-> fa, raw_output |-> <<>>] :
          th \in TurnThinking,
          acts \in TurnActionsUpTo(MaxTurnActions),
          fa \in {None, Some(<<"done">>)} }

\* parsed holds the Turn, text its rendering, parse_result the parse of text
InitRender ==
    /\ pc = "render"
    /\ text = <<>>
    /\ tools = <<>>
    /\ tool_definitions = <<>>
    /\ agent = "default"
    /\ fresh_tools = <<>>
    /\ fresh_tool_definitions = <<>>
    /\ reqTools = <<>>
    /\ original_tool_definitions = None
    /\ errDetail = <<>>
    /\ max_iterations = 0
    /\ prompt = <<>>
    /\ next_prompt = <<>>
    /\ response = <<>>
    /\ parsed \in Turns
    /\ continuation = <<>>
    /\ iterations = 0
    /\ result = NoResult
    /\ outputs = <<>>
    /\ execLog = <<>>
    /\ registrations = <<>>
    /\ parse_result = EmptyParsed

RenderCall ==
    /\ pc = "render"
    /\ text' = RenderTurn(parsed)
    /\ pc' = "rendered"
    /\ UNCHANGED <<tools, tool_definitions, agent, fresh_tools,
                   fresh_tool_definitions, reqTools, original_tool_definitions,
                   errDetail, max_iterations, prompt, next_prompt, response,
                   parsed, continuation, iterations, result, outputs, execLog,
                   registrations, parse_result>>

ReparseCall ==
    /\ pc = "rendered"
    /\ parse_result' = parse_react_output(text)
    /\ pc' = "reparsed"
    /\ UNCHANGED <<tools, tool_definitions, agent, fresh_tools,
                   fresh_tool_definitions, reqTools, original_tool_definitions,
                   errDetail, max_iterations, prompt, next_prompt, response,
                   parsed, continuation, iterations, result, outputs, execLog,
                   registrations, text>>

NextRender == RenderCall \/ ReparseCall

SpecRender == InitRender /\ [][NextRender]_vars

----------------------------------------------------------------------------
(* Vocabulary of the properties *)

\* the grammar's sections: a label and the text up to the next label or the end
Count(s, label) == Cardinality({i \in 1..Len(s) : s[i] = label})
FirstIndexOf(s, label) == Find(s, LabelPositions(s), 1, {label})
LastIndexOf(s, label) ==
    CHOOSE p \in 1..Len(s) :
        s[p] = label /\ \A q \in (p + 1)..Len(s) : s[q] # label
SectionText(s, p) ==
    Strip(SubSeq(s, p + 1, Find(s, LabelPositions(s), p + 1, Labels) - 1))

\* a generator output that is one action group: ACTION naming a registered
\* tool, ACTION_INPUT, no observation, nothing else
IsActionGroup(out) ==
    /\ Count(out, ACTION_LABEL) = 1
    /\ Count(out, ACTION_INPUT_LABEL) = 1
    /\ Count(out, OBSERVATION_LABEL) = 0
    /\ Count(out, FINAL_ANSWER_LABEL) = 0
    /\ FirstIndexOf(out, ACTION_LABEL) < FirstIndexOf(out, ACTION_INPUT_LABEL)
    /\ Registered(tools, SectionText(out, FirstIndexOf(out, ACTION_LABEL)))

\* a generator output with one FINAL_ANSWER section and no action
IsFinalOutput(out) ==
    /\ Count(out, FINAL_ANSWER_LABEL) = 1
    /\ Count(out, ACTION_LABEL) = 0

Last(s) == s[Len(s)]

\* an execute_tools call has run and the generator has not been called since
JustExecuted == pc = "generate_next"

----------------------------------------------------------------------------
(* Properties *)

\* C1: if the generator's outputs are K action groups and then an output
\* with a FINAL_ANSWER section, and max_iterations >= K, the run ends within
\* K + 1 iterations and returns that FINAL_ANSWER text.  A run that has
\* returned after n outputs, all of them action groups, with n <=
\* max_iterations, has ended before the final answer was asked for.
C1_FinalAnswerAfterKGroups ==
    (pc = "done" /\ outputs # <<>>) =>
        LET n == Len(outputs) IN
        /\ (/\ n <= max_iterations
            /\ \A k \in 1..n : IsActionGroup(outputs[k]))
           => FALSE
        /\ (/\ n - 1 <= max_iterations
            /\ \A k \in 1..(n - 1) : IsActionGroup(outputs[k])
            /\ IsFinalOutput(outputs[n]))
           => /\ iterations <= n
              /\ result.final_answer =
                   Some(SectionText(outputs[n], FirstIndexOf(outputs[n], FINAL_ANSWER_LABEL)))

\* C2: with max_iterations = n and a generator that only emits action
\* groups, never FINAL_ANSWER, the run performs exactly n tool-executing
\* iterations and returns final_answer null.
C2_ExactlyMaxIterations ==
    (/\ pc = "done"
     /\ outputs # <<>>
     /\ \A k \in 1..Len(outputs) : IsActionGroup(outputs[k]))
    => /\ iterations = max_iterations
       /\ Len(execLog) = max_iterations
       /\ result.final_answer = None

\* C3: every execute_tools call attempts exactly one tool, and it is the
\* first action in list order whose observation is null.
C3_OneFirstPending ==
    [][ (pc = "loop" /\ pc' \in {"generate_next", "return"}) =>
          /\ Len(execLog') = Len(execLog) + 1
          /\ LET e == Last(execLog') IN
             /\ e.index \in 1..Len(parsed.actions)
             /\ ~parsed.actions[e.index].observation.some
             /\ \A j \in 1..(e.index - 1) : parsed.actions[j].observation.some
             /\ e.tool = parsed.actions[e.index].tool ]_vars

\* C3 witness: a tool other than the first action was executed while a later
\* action was pending too
C3_Witness ==
    /\ JustExecuted
    /\ Last(execLog).index >= 2
    /\ \E j \in (Last(execLog).index + 1)..Len(parsed.actions) :
           ~parsed.actions[j].observation.some

\* C4: once the parsed transcript has final_answer set, the empty string
\* included, no further tool is executed and no further generator call is made.
C4_FinalAnswerIsTerminal ==
    [][ (pc = "loop" /\ parsed.final_answer.some) =>
          (execLog' = execLog /\ outputs' = outputs) ]_vars

C6_InputCounts ==
    LET N == Count(text, ACTION_LABEL)
        M == Count(text, ACTION_INPUT_LABEL)
        acts == parse_result.actions
    IN (pc = "parsed" /\ M <= N) =>
        /\ Len(acts) = N
        /\ Cardinality({i \in 1..Len(acts) : acts[i].input.kind # "null"}) = M
        /\ Cardinality({i \in 1..Len(acts) : acts[i].input.kind = "null"}) = N - M

\* C7: a registered tool that raises yields an observation holding the tool
\* name and the failure detail, and the run goes on to the next generator
\* call, whose prompt carries that observation.  (At "raised" that call has
\* been made: it failed, or the parse of its output did.)
C7_ToolFailureBecomesObservation ==
    \A k \in 1..Len(execLog) :
        execLog[k].kind = "raised" =>
            /\ Infix(execLog[k].tool, execLog[k].observation)
            /\ Infix(execLog[k].detail, execLog[k].observation)
            /\ (k > iterations) =>
                   /\ pc \in {"generate_next", "raised"}
                   /\ Infix(execLog[k].observation, next_prompt)

\* C7 witness: a tool raised and the generator was called again after it
C7_Witness ==
    /\ pc = "loop"
    /\ iterations >= 1
    /\ execLog[iterations].kind = "raised"

\* C8: an action naming an unregistered tool yields an observation that
\* names the tool and lists every registered tool; the run goes on to the
\* next generator call with the observation appended to the transcript.
C8_UnknownToolObservation ==
    \A k \in 1..Len(execLog) :
        execLog[k].kind = "not_found" =>
            LET e == execLog[k]
                appended == <<OBSERVATION_LABEL, SP>> \o e.observation \o <<NL>>
            IN /\ Infix(e.tool, e.observation)
               /\ \A i \in 1..Len(AgentTools) : Contains(e.observation, AgentTools[i].name)
               /\ (k > iterations) =>
                      (pc \in {"generate_next", "raised"}
                       /\ Infix(appended, next_prompt))
               /\ (k <= iterations) => Infix(appended, response)

\* C8 witness: an unregistered tool was named and the generator was called
\* again after it
C8_Witness ==
    /\ pc = "loop"
    /\ iterations >= 1
    /\ execLog[iterations].kind = "not_found"

RequestedAbsent == {i \in 1..Len(reqTools) : ~HasKey(tools, reqTools[i])}

\* C9: a request whose tool subset holds an unregistered name fails before
\* any generator call is made.
C9_UnknownSubsetFailsBeforeGeneration ==
    (RequestedAbsent # {}) =>
        /\ pc = "http_error"
        /\ outputs = <<>>
        /\ ~result.returned

\* C9 witness: the request failed on an unregistered name that came after a
\* registered one
C9_Witness ==
    /\ pc = "http_error"
    /\ Len(reqTools) = 2
    /\ RequestedAbsent = {2}

\* C10 as stated: the error names every requested-but-absent tool and lists
\* all registered tool names.
C10_NamesEveryAbsentTool ==
    (pc = "http_error") =>
        /\ \A i \in RequestedAbsent : Contains(errDetail, reqTools[i])
        /\ \A j \in 1..Len(tools) : Contains(errDetail, tools[j].name)

\* C10 amended: the error names the first requested-but-absent tool, in
\* request order, and no other absent tool, and lists all registered tool
\* names.
C10_NamesFirstAbsentTool ==
    (pc = "http_error") =>
        LET first == CHOOSE i \in RequestedAbsent : \A j \in RequestedAbsent : i <= j IN
        /\ Contains(errDetail, reqTools[first])
        /\ \A i \in RequestedAbsent :
               reqTools[i] # reqTools[first] => ~Contains(errDetail, reqTools[i])
        /\ \A j \in 1..Len(tools) : Contains(errDetail, tools[j].name)

\* C10 witness: the request named two different unregistered tools
C10_Witness ==
    /\ pc = "http_error"
    /\ \E i, j \in RequestedAbsent : reqTools[i] # reqTools[j]

\* C11: when a generator call raises, on the first call or inside the loop,
\* the failure leaves run: the run is over, it has returned no result, and
\* nothing it had parsed so far is handed to the caller.
C11_GeneratorFailurePropagates ==
    (errDetail \in GeneratorRaises) =>
        /\ pc = "raised"
        /\ ~result.returned
        /\ result = NoResult

\* C11 witness: the generator failed after a tool had been executed
C11_Witness ==
    /\ pc = "raised"
    /\ errDetail \in GeneratorRaises
    /\ execLog # <<>>
    /\ parsed.actions # <<>>

\* C12: a run makes at most max_iterations tool executions and at most
\* max_iterations + 1 generator calls, whatever the generator and the tools
\* return, and it ends: once run has been called it returns its result (or
\* the generator's failure leaves it).  Runs are followed to the end when
\* their max_iterations + 1 generator calls fit in MaxGenCalls.
C12_RunTerminates ==
    /\ [](/\ Len(execLog) <= max_iterations
          /\ iterations <= max_iterations
          /\ Len(outputs) <= max_iterations + 1)
    /\ ((pc = "generate" /\ max_iterations < MaxGenCalls)
            ~> (pc \in {"done", "raised"}))

\* C12 witness: a run that used its whole budget and returned
C12_Witness ==
    /\ pc = "done"
    /\ max_iterations >= 2
    /\ Len(execLog) = max_iterations
    /\ Len(outputs) = max_iterations + 1
    /\ \E i \in 1..Len(result.actions) : ~result.actions[i].observation.some

\* the latest register_tool call made under a name
LatestRegistration(name) ==
    registrations[CHOOSE k \in 1..Len(registrations) :
                      /\ registrations[k].name = name
                      /\ \A l \in (k + 1)..Len(registrations) :
                             registrations[l].name # name]

\* C13: after any sequence of register_tool calls, every registered name
\* has exactly one binding in tools and exactly one entry in
\* tool_definitions, and both are those of the latest registration under
\* that name.
C13_RegistryKeyedByName ==
    \A k \in 1..Len(registrations) :
        LET name == registrations[k].name
            latest == LatestRegistration(name)
            bindings == {i \in 1..Len(tools) : tools[i].name = name}
            entries == {i \in 1..Len(tool_definitions) :
                           tool_definitions[i].name = name}
        IN /\ Cardinality(bindings) = 1
           /\ \A i \in bindings : tools[i].func = latest.func
           /\ Cardinality(entries) = 1
           /\ \A i \in entries :
                  tool_definitions[i].description = latest.description

\* the spans of one label when a span ends at the next label of any kind
LabelledSpans(s, label) == FindIter(s, LabelPositions(s), 1, label, Labels)

\* C14: every THINKING, ACTION, ACTION_INPUT, OBSERVATION and FINAL_ANSWER
\* span ends at the next occurrence of any of the five labels, or at the end
\* of the text: what parse_react_output returns is built from those spans.
C14_SpansEndAtNextLabel ==
    (pc = "parsed") =>
        LET acts == parse_result.actions
            action_spans == LabelledSpans(text, ACTION_LABEL)
            input_spans == LabelledSpans(text, ACTION_INPUT_LABEL)
            observation_spans == LabelledSpans(text, OBSERVATION_LABEL)
        IN /\ parse_result.thinking =
                  StripNonEmpty(LabelledSpans(text, THINKING_LABEL))
           /\ Len(acts) = Len(action_spans)
           /\ \A i \in 1..Len(acts) :
                  /\ acts[i].tool = Strip(action_spans[i])
                  /\ acts[i].input = ActionInput(input_spans, i)
                  /\ acts[i].observation = ActionObservation(observation_spans, i)
           /\ parse_result.final_answer.some =>
                  \A l \in Labels : ~Contains(parse_result.final_answer.val, l)

\* C15: rendering a well-formed Turn into the grammar and parsing the
\* rendering gives back a Turn equal to the original in thinking, actions
\* and final_answer.
C15_ParseRenderRoundTrip ==
    (pc = "reparsed") =>
        /\ parse_result.thinking = parsed.thinking
        /\ parse_result.actions = parsed.actions
        /\ parse_result.final_answer = parsed.final_answer

\* the ACTION_INPUT spans as the parser cuts them
InputSpans(s) ==
    FindIter(s, LabelPositions(s), 1, ACTION_INPUT_LABEL, ACTION_INPUT_PATTERN)

\* C16: parse_react_output raises for no text, and an ACTION_INPUT span that
\* does not decode is that action's input as the raw string.
C16_UndecodableInputKeptRaw ==
    (pc \in {"parsed", "raised"} /\ text # <<>>) =>
        /\ pc = "parsed"
        /\ \A i \in 1..Len(parse_result.actions) :
               (i <= Len(InputSpans(text)) /\ ~JsonDecodes(InputSpans(text)[i]))
                   => parse_result.actions[i].input = JStr(Strip(InputSpans(text)[i]))

\* C18: once startup registration has completed, no step of a request
\* handler changes the default agent's tools or its tool_definitions.
C18_RegistryReadOnlyAfterStartup ==
    [][ (pc # "startup") =>
            (tools' = tools /\ tool_definitions' = tool_definitions) ]_vars

\* C19: within a run generator calls and tool executions alternate, starting
\* with a generator call.  A generator call returns only when as many tools
\* have been executed as calls have returned; a tool is executed, one at a
\* time, only when one more call has returned than tools were executed; the
\* prompt of the call after an execution holds that execution's observation;
\* iterations counts the completed pairs of an execution and a call.
C19_StrictAlternation ==
    /\ [][ /\ (outputs' # outputs) =>
                 /\ Len(outputs') = Len(outputs) + 1
                 /\ Len(execLog) = Len(outputs)
                 /\ execLog' = execLog
           /\ (execLog' # execLog) =>
                 /\ Len(execLog') = Len(execLog) + 1
                 /\ Len(outputs) = Len(execLog) + 1
                 /\ outputs' = outputs
           /\ (iterations' # iterations /\ pc # "generate") =>
                 /\ iterations' = iterations + 1
                 /\ outputs' # outputs
                 /\ Len(execLog) = iterations' ]_vars
    /\ [](/\ (pc = "generate_next") =>
                 /\ Len(execLog) = iterations + 1
                 /\ Infix(<<OBSERVATION_LABEL, SP>> \o Last(execLog).observation,
                          next_prompt)
          /\ (pc \in {"loop", "return", "done"}) =>
                 /\ Len(outputs) = iterations + 1
                 /\ Len(execLog) = iterations)

\* C19 witness: two executions, each followed by a generator call
C19_Witness ==
    /\ pc = "loop"
    /\ iterations = 2
    /\ Len(execLog) = 2
    /\ Len(outputs) = 3

\* the ACTION sections in the generator's outputs
RECURSIVE EmittedActions(_)
EmittedActions(outs) ==
    IF outs = <<>> THEN 0
    ELSE Count(Head(outs), ACTION_LABEL) + EmittedActions(Tail(outs))

\* C20: the parse of the accumulated transcript has exactly one action per
\* action the generator emitted; the rendering appended for an executed
\* action is not one more action, and not a pending one.
C20_OneActionPerEmittedAction ==
    (pc = "loop") => Len(parsed.actions) = EmittedActions(outputs)

\* the actions one generator output emits, in order: an ACTION section and,
\* as its own input, the ACTION_INPUT section that directly follows it
EmittedIn(out) ==
    LET at == LabelPositions(out)
        starts == FindIter(out, at, 1, ACTION_LABEL, Labels)
        pos == [k \in 1..Len(starts) |->
                   CHOOSE p \in at :
                       /\ out[p] = ACTION_LABEL
                       /\ Cardinality({q \in at : q <= p /\ out[q] = ACTION_LABEL}) = k]
    IN [k \in 1..Len(starts) |->
           LET nxt == Find(out, at, pos[k] + 1, Labels) IN
           [tool |-> Strip(starts[k]),
            input |-> IF nxt <= Len(out) /\ out[nxt] = ACTION_INPUT_LABEL
                      THEN ActionInput(<<SectionText(out, nxt)>>, 1)
                      ELSE JNull]]

RECURSIVE Emitted(_)
Emitted(outs) ==
    IF outs = <<>> THEN <<>> ELSE EmittedIn(Head(outs)) \o Emitted(Tail(outs))

\* the tools that were called (an unregistered name is not called)
Invocations == SelectSeq(execLog, LAMBDA e : e.kind # "not_found")

\* C21: every tool invocation of a run is that of a distinct action the
\* generator emitted, with that action's tool name and that action's own
\* input: the invocations map one-to-one into the emitted actions.
C21_InvocationsAreEmittedActions ==
    LET em == Emitted(outputs)
        inv == Invocations
    IN \E f \in [1..Len(inv) -> 1..Len(em)] :
           /\ \A i, j \in 1..Len(inv) : i # j => f[i] # f[j]
           /\ \A i \in 1..Len(inv) :
                  /\ inv[i].tool = em[f[i]].tool
                  /\ inv[i].input = em[f[i]].input

\* C22: in the result run returns, every executed action has the tool name
\* and the input the tool was called with; what was appended to the
\* transcript after the execution did not change them.
C22_ResultKeepsExecutedToolAndInput ==
    (pc = "done") =>
        \A k \in 1..Len(execLog) :
            execLog[k].kind # "not_found" =>
                /\ execLog[k].index <= Len(result.actions)
                /\ result.actions[execLog[k].index].tool = execLog[k].tool
                /\ result.actions[execLog[k].index].input = execLog[k].input

\* C23: when the request restricts the run to a subset of tool names, no
\* tool outside the subset is invoked during the run.
C23_OnlySubsetToolsInvoked ==
    (reqTools # <<>>) =>
        \A k \in 1..Len(execLog) :
            execLog[k].kind # "not_found" =>
                \E i \in 1..Len(reqTools) : execLog[k].tool = <<reqTools[i]>>

\* an observation with its grammar labels taken out
Sanitized(o) == SelectSeq(o, LAMBDA t : t \notin Labels)

\* the transcript of the run so far, had every tool output been free of
\* grammar labels: output, continuation, output, ... as run appends them
RECURSIVE SanitizedTranscript(_)
SanitizedTranscript(n) ==
    IF n = 1 THEN outputs[1]
    ELSE SanitizedTranscript(n - 1) \o <<NL>>
         \o Rendering(execLog[n - 1].tool, execLog[n - 1].input,
                      Sanitized(execLog[n - 1].observation))
         \o outputs[n]

\* C24: text returned by a tool is only ever an observation.  The parsed
\* Turn has the actions, the pending actions and the final_answer it would
\* have had if the observations had held no grammar label.
C24_ObservationIsData ==
    (pc = "loop" /\ Len(execLog) = Len(outputs) - 1) =>
        LET clean == parse_react_output(SanitizedTranscript(Len(outputs))) IN
        /\ Len(parsed.actions) = Len(clean.actions)
        /\ \A i \in 1..Len(parsed.actions) :
               parsed.actions[i].observation.some = clean.actions[i].observation.some
        /\ parsed.final_answer = clean.final_answer

\* C25: after an iteration that executed the action at index p and produced
\* observation o, o free of grammar labels and the generator's new output
\* without an OBSERVATION section, the re-parsed Turn's action p has
\* observation o, every action before p keeps its observation and every
\* action after p has none.
C25_ObservationLandsOnExecutedAction ==
    [][ (/\ pc = "generate_next"
         /\ pc' = "loop"
         /\ Sanitized(Last(execLog).observation) = Last(execLog).observation
         /\ Count(Last(outputs'), OBSERVATION_LABEL) = 0)
        => LET p == Last(execLog).index
               o == Last(execLog).observation
           IN /\ p <= Len(parsed'.actions)
              /\ parsed'.actions[p].observation = Some(o)
              /\ \A j \in 1..(p - 1) :
                     parsed'.actions[j].observation = parsed.actions[j].observation
              /\ \A j \in (p + 1)..Len(parsed'.actions) :
                     ~parsed'.actions[j].observation.some ]_vars

\* the ACTION and OBSERVATION spans as the parser cuts them
ActionSpans(s) == FindIter(s, LabelPositions(s), 1, ACTION_LABEL, ACTION_PATTERN)
ObservationSpans(s) ==
    FindIter(s, LabelPositions(s), 1, OBSERVATION_LABEL, OBSERVATION_PATTERN)

\* where the ACTION spans start: the ACTION labels that are not inside an
\* earlier ACTION span
RECURSIVE ActionStarts(_, _)
ActionStarts(s, i) ==
    LET at == LabelPositions(s)
        p == Find(s, at, i, {ACTION_LABEL})
    IN IF p > Len(s) THEN <<>>
       ELSE <<p>> \o ActionStarts(s, Find(s, at, p + 1, ACTION_PATTERN))

IsPrefix(s, t) == Len(s) <= Len(t) /\ SubSeq(t, 1, Len(s)) = s

RECURSIVE Transcript(_)
Transcript(n) ==
    IF n = 1 THEN outputs[1]
    ELSE Transcript(n - 1) \o <<NL>>
         \o <<ACTION_LABEL, SP>> \o execLog[n - 1].tool \o <<NL>>
         \o <<ACTION_INPUT_LABEL, SP>> \o JsonDumps(execLog[n - 1].input) \o <<NL>>
         \o <<OBSERVATION_LABEL, SP>> \o execLog[n - 1].observation \o <<NL>>
         \o outputs[n]

\* C27: the raw_output of the result run returns is the whole accumulated
\* transcript, and the result's thinking, actions and final_answer are the
\* parse of that raw_output.
C27_ResultIsParseOfTranscript ==
    (pc = "done") =>
        /\ Len(execLog) = Len(outputs) - 1
        /\ result.raw_output = Transcript(Len(outputs))
        /\ LET p == parse_react_output(result.raw_output) IN
           /\ result.thinking = p.thinking
           /\ result.actions = p.actions
           /\ result.final_answer = p.final_answer

\* C27 witness: a run of two iterations returned, with an executed action
\* in its result
C27_Witness ==
    /\ pc = "done"
    /\ Len(outputs) = 3
    /\ Len(execLog) = 2
    /\ \E i \in 1..Len(result.actions) : result.actions[i].observation.some

\* a generator output with no FINAL_ANSWER section and no action without an
\* observation: every ACTION section is followed by an OBSERVATION section
\* before the next ACTION section
NothingToDo(out) ==
    /\ Count(out, FINAL_ANSWER_LABEL) = 0
    /\ \A p \in 1..Len(out) :
           out[p] = ACTION_LABEL =>
               \E q \in (p + 1)..Len(out) :
                   /\ out[q] = OBSERVATION_LABEL
                   /\ \A r \in (p + 1)..(q - 1) : out[r] # ACTION_LABEL

\* C28: if the first generator output has neither a FINAL_ANSWER section nor
\* an action without an observation, run returns successfully after that one
\* generator call, without a tool execution, with final_answer null and no
\* error.
C28_NothingToDoReturnsAtOnce ==
    (outputs # <<>> /\ NothingToDo(outputs[1])) =>
        /\ pc \in {"loop", "done"}
        /\ pc = "loop" => ~LoopCondition
        /\ Len(outputs) = 1
        /\ execLog = <<>>
        /\ errDetail = <<>>
        /\ pc = "done" => (result.returned /\ result.final_answer = None)

\* C29: the transcript is append-only within a run.  Every prompt passed to
\* the generator after the first is the previous prompt followed by the
\* previous generator output, a newline and the continuation rendering; the
\* initial prompt and the previous prompt are prefixes of it.
C29_PromptsAppendOnly ==
    [][ (pc = "loop" /\ pc' = "generate_next") =>
          LET previous == IF iterations = 0 THEN prompt ELSE next_prompt IN
          /\ next_prompt' = previous \o Last(outputs) \o <<NL>> \o continuation'
          /\ IsPrefix(prompt, next_prompt')
          /\ IsPrefix(previous, next_prompt')
          /\ Len(next_prompt') > Len(previous)
          /\ prompt' = prompt ]_vars

\* C29 witness: the third prompt of a run has been built
C29_Witness ==
    /\ pc = "generate_next"
    /\ iterations = 1
    /\ Len(outputs) = 2
    /\ Len(execLog) = 2

\* the definitions of every registered tool, in registration order
FullDefinitions ==
    [i \in 1..Len(registrations) |->
        [name |-> registrations[i].name, description |-> registrations[i].description]]

\* C30: after a /agent request with a tool subset has finished, by a result
\* or by an exception, the default agent's tool_definitions is the full
\* list again.
C30_DefinitionsRestoredAfterRequest ==
    (reqTools # <<>> /\ pc \in {"done", "raised", "http_error"}) =>
        tool_definitions = FullDefinitions

\* C30 witness: a request that filtered the default agent's tools ended by
\* an exception after a tool had run
C30_Witness ==
    /\ pc = "raised"
    /\ agent = "default"
    /\ reqTools # <<>>
    /\ original_tool_definitions.some
    /\ execLog # <<>>

====
